---- MODULE Spec2Model ----
(***************************************************************************)
(* Model of batch_convert_to_ico.py (and its twin                          *)
(* batch_convert_to_ico_pro.py, which differs only in logging, defaults    *)
(* and the --strict flag): convert_svg_to_ico, git_commit_and_push and the *)
(* __main__ driver.                                                        *)
(*                                                                         *)
(* Strings are sequences of one-character strings, so that endswith,       *)
(* rsplit, slicing, lower(), isdigit() and the lexicographic order used by *)
(* sorted() are computed the way Python computes them.                     *)
(***************************************************************************)
EXTENDS Integers, Sequences, FiniteSets, TLC

\* ------------------------------------------------------------------ bounds
\* longest caller-supplied size tuple
MaxSizes == 2
\* most files in one input folder
MaxFiles == 2
\* longest status the environment reports
MaxStatus == 3
\* most input folders found beside the script
MaxFolders == 2

\* ----------------------------------------------------------- str helpers
\* ord() of the characters that occur in the modelled file names
Ord(c) ==
  CASE c = " " -> 32 [] c = "\"" -> 34 [] c = "#" -> 35 [] c = "-" -> 45
    [] c = "." -> 46 [] c = "/" -> 47
    [] c = "0" -> 48 [] c = "1" -> 49 [] c = "2" -> 50 [] c = "3" -> 51
    [] c = "4" -> 52 [] c = "5" -> 53 [] c = "6" -> 54 [] c = "7" -> 55
    [] c = "8" -> 56 [] c = "9" -> 57 [] c = ">" -> 62
    [] c = "A" -> 65 [] c = "G" -> 71 [] c = "P" -> 80 [] c = "S" -> 83
    [] c = "V" -> 86 [] c = "X" -> 88
    [] c = "a" -> 97 [] c = "b" -> 98 [] c = "c" -> 99 [] c = "d" -> 100
    [] c = "g" -> 103 [] c = "h" -> 104 [] c = "i" -> 105 [] c = "l" -> 108
    [] c = "m" -> 109 [] c = "n" -> 110 [] c = "o" -> 111 [] c = "p" -> 112
    [] c = "s" -> 115 [] c = "t" -> 116 [] c = "u" -> 117 [] c = "v" -> 118
    [] c = "x" -> 120 [] c = "y" -> 121
    [] OTHER -> 0

\* str.lower() on one character
LowerChar(c) ==
  CASE c = "A" -> "a" [] c = "G" -> "g" [] c = "P" -> "p" [] c = "S" -> "s"
    [] c = "V" -> "v" [] c = "X" -> "x" [] OTHER -> c

\* str.lower()
Lower(s) == [i \in 1..Len(s) |-> LowerChar(s[i])]

\* str.endswith(suffix)
EndsWith(s, suffix) ==
  /\ Len(s) >= Len(suffix)
  /\ SubSeq(s, Len(s) - Len(suffix) + 1, Len(s)) = suffix

\* s[:-n]
DropLast(s, n) == SubSeq(s, 1, Len(s) - n)

\* str.isdigit(): non-empty and every character a decimal digit
IsDigit(s) ==
  /\ Len(s) > 0
  /\ \A i \in 1..Len(s) : Ord(s[i]) >= 48 /\ Ord(s[i]) <= 57

\* str.rsplit(sep, 1) for a one-character separator
RSplit1(s, sep) ==
  LET hits == {i \in 1..Len(s) : s[i] = sep}
  IN  IF hits = {} THEN <<s>>
      ELSE LET k == CHOOSE i \in hits : \A j \in hits : j <= i
           IN  <<SubSeq(s, 1, k - 1), SubSeq(s, k + 1, Len(s))>>

\* str(n) for a non-negative integer, as used by the f-strings
RECURSIVE IntToStr(_)
IntToStr(n) ==
  LET digits == <<"0", "1", "2", "3", "4", "5", "6", "7", "8", "9">>
  IN  IF n < 10 THEN <<digits[n + 1]>>
      ELSE IntToStr(n \div 10) \o <<digits[(n % 10) + 1]>>

\* Python's order on str: lexicographic by code point
RECURSIVE StrLess(_, _)
StrLess(s, t) ==
  IF t = <<>> THEN FALSE
  ELSE IF s = <<>> THEN TRUE
  ELSE IF Ord(Head(s)) # Ord(Head(t)) THEN Ord(Head(s)) < Ord(Head(t))
  ELSE StrLess(Tail(s), Tail(t))

\* sorted() of a collection of distinct strings: each string goes to the
\* position given by the number of strings below it
SortedStrs(S) ==
  [p \in 1..Cardinality(S) |->
     CHOOSE x \in S : Cardinality({y \in S : StrLess(y, x)}) = p - 1]

\* sorted() of a tuple of integers (stable, duplicates kept): each element
\* goes to the position given by the number of elements ordered before it
SortedInts(t) ==
  LET before(i) == {j \in 1..Len(t) : t[j] < t[i] \/ (t[j] = t[i] /\ j < i)}
  IN  [p \in 1..Len(t) |->
         t[CHOOSE i \in 1..Len(t) : Cardinality(before(i)) = p - 1]]

\* x in list
InList(x, l) == \E i \in 1..Len(l) : l[i] = x

\* a one-line joined rendering of a character sequence, for messages
RECURSIVE Str(_)
Str(s) == IF s = <<>> THEN "" ELSE Head(s) \o Str(Tail(s))

\* str.strip(chars): drop the leading and trailing characters in `chars`
RECURSIVE StripChars(_, _)
StripChars(s, chars) ==
  IF s = <<>> THEN s
  ELSE IF Head(s) \in chars THEN StripChars(Tail(s), chars)
  ELSE IF s[Len(s)] \in chars THEN StripChars(DropLast(s, 1), chars)
  ELSE s

\* sub in s
Contains(s, sub) ==
  \E i \in 1..(Len(s) - Len(sub) + 1) : SubSeq(s, i, i + Len(sub) - 1) = sub

\* s.split(sep)[0]: the text before the first occurrence of sep
SplitFirst(s, sep) ==
  IF ~Contains(s, sep) THEN s
  ELSE LET k == CHOOSE i \in 1..(Len(s) - Len(sep) + 1) :
                  /\ SubSeq(s, i, i + Len(sep) - 1) = sep
                  /\ \A j \in 1..(i - 1) : SubSeq(s, j, j + Len(sep) - 1) # sep
       IN  SubSeq(s, 1, k - 1)

\* os.path.basename
Basename(path) == RSplit1(path, "/")[Len(RSplit1(path, "/"))]

\* ', '.join(parts) for parts that are strings
RECURSIVE JoinComma(_)
JoinComma(parts) ==
  IF parts = <<>> THEN ""
  ELSE IF Len(parts) = 1 THEN parts[1]
  ELSE parts[1] \o ", " \o JoinComma(Tail(parts))

\* ------------------------------------------------------- file name fixtures
DotSvg == <<".", "s", "v", "g">>
Px == <<"p", "x">>
\* f'-{size}px.svg'
PxSuffix(size) == <<"-">> \o IntToStr(size) \o Px \o DotSvg

\* requested pixel sizes the callers draw from
SizeValues == {1, 2, 3}

\* the file names an input folder may hold
FileUniverse ==
  { <<"a">> \o DotSvg, <<"b">> \o DotSvg,
    <<"a">> \o PxSuffix(1), <<"a">> \o PxSuffix(2),
    <<"a", "#", "1">> \o Px \o DotSvg,
    <<"A", "-", "1", "P", "X", ".", "S", "V", "G">>,
    <<"a", "-">> \o Px \o DotSvg,
    <<"c", ".", "p", "n", "g">> }

\* ------------------------------------------------------------- classifier
\* the nested helper of convert_svg_to_ico
ends_with_px(string) ==
  IF ~EndsWith(string, Px) THEN FALSE
  ELSE LET parts == RSplit1(string, "#")
       IN  IF Len(parts) # 2 THEN FALSE
           ELSE IsDigit(DropLast(parts[2], 2))

\* filename.lower().endswith('.svg')
IsSvg(filename) == EndsWith(Lower(filename), DotSvg)

\* base_filenames as first computed (before the incremental filter)
BaseFilenames(files, szs) ==
  SortedStrs({f \in files :
      /\ IsSvg(f)
      /\ ~(\E i \in 1..Len(szs) : ends_with_px(Lower(DropLast(f, 4))))})

\* alt_filenames
AltFilenames(files, szs) ==
  SortedStrs({f \in files :
      /\ IsSvg(f)
      /\ \E i \in 1..(Len(szs) - 1) : ends_with_px(Lower(DropLast(f, 4)))})

\* --------------------------------------------------------------- state
VARIABLES
  fs,             \* environment: existing folder -> set of file names in it
  worktree,       \* environment: repository -> its staged status entries
  input_folders,  \* __main__: the folders to convert, in order
  main_sizes,     \* __main__: the size list passed to every conversion
  opt_changed,    \* __main__: the --changed flag
  folder_i,       \* __main__: folders handed to convert_svg_to_ico so far
  main_log,       \* __main__: folders whose conversion raised (warning logged)
  sync_calls,     \* __main__: repositories git_commit_and_push was called on
  repo_path,      \* git_commit_and_push argument
  message,        \* git_commit_and_push argument, rebound when synthesized
  cwd,            \* the process working directory
  original_cwd,   \* local of git_commit_and_push
  status,         \* local: output lines of git status --porcelain
  git_ops,        \* git commands issued by the current call, in order
  git_log,        \* messages logged by the current call
  pc,             \* control point of the running program
  input_folder,   \* convert_svg_to_ico argument
  sizes,          \* convert_svg_to_ico argument, rebound to sorted(sizes)
  only_changed,   \* convert_svg_to_ico argument
  requested,      \* the size tuple as the caller passed it
  base_filenames, \* local of convert_svg_to_ico
  alt_filenames,  \* local of convert_svg_to_ico
  unfiltered,     \* base_filenames as classified, before the changed filter
  changed_paths,  \* local: the change set read from git
  vcs_outcome,    \* how the git queries of the incremental filter ended
  base_i,         \* position of the for loop over base_filenames (1-based)
  inputs,         \* local: remaining candidate sources of the current icon
  input,          \* local: current candidate source
  size_index,     \* position of the for loop over sizes (1-based)
  rasterized,     \* every SVG->PNG invocation issued by this call, in order
  packed,         \* every PNG->ICO invocation issued by this call, in order
  error_log,      \* error messages logged by this call: <<stage, base file>>
  warnings,       \* warnings logged by this call
  exc             \* exception propagating out of the call ("" when none)

convVars == <<input_folder, sizes, only_changed, requested, base_filenames,
              alt_filenames, unfiltered, changed_paths, vcs_outcome, base_i,
              inputs, input, size_index, rasterized, packed, error_log,
              warnings, exc>>

envVars == <<fs, worktree>>

mainVars == <<input_folders, main_sizes, opt_changed, folder_i, main_log,
              sync_calls>>

gitVars == <<repo_path, message, cwd, original_cwd, status, git_ops, git_log>>

NoInput == [path |-> <<>>, maximum_size |-> 0]

\* os.path.join(folder, name), already normalised
Join(folder, name) == <<folder, name>>

\* a changed file that lies outside every input folder
Elsewhere == Join("docs", <<"a">> \o DotSvg)

\* size tuples a caller may pass: any order, duplicates allowed
SizeTuples == UNION {[1..n -> SizeValues] : n \in 0..MaxSizes}

\* folder contents the environment may hold
Listings == {S \in SUBSET FileUniverse : Cardinality(S) <= MaxFiles}

\* the locals of a fresh call frame
FreshFrame ==
  /\ base_filenames = <<>> /\ alt_filenames = <<>> /\ unfiltered = <<>>
  /\ changed_paths = {} /\ vcs_outcome = "" /\ base_i = 0 /\ inputs = <<>> /\ input = NoInput
  /\ size_index = 0 /\ rasterized = <<>> /\ packed = <<>>
  /\ error_log = {} /\ warnings = {} /\ exc = ""

\* ------------------------------------------------- convert_svg_to_ico
\* lines 38-53: sort the sizes, list the folder, classify
Classify ==
  /\ pc = "conv_classify"
  /\ LET sorted == SortedInts(sizes)
     IN  /\ sizes' = sorted
         /\ IF input_folder \notin DOMAIN fs
              THEN \* os.listdir raises FileNotFoundError
                   /\ exc' = "FileNotFoundError"
                   /\ pc' = "conv_raised"
                   /\ UNCHANGED <<base_filenames, alt_filenames, unfiltered>>
              ELSE /\ base_filenames' = BaseFilenames(fs[input_folder], sorted)
                   /\ unfiltered' = BaseFilenames(fs[input_folder], sorted)
                   /\ alt_filenames' = AltFilenames(fs[input_folder], sorted)
                   /\ pc' = IF only_changed THEN "conv_filter" ELSE "conv_icon"
                   /\ exc' = exc
  /\ UNCHANGED <<envVars, gitVars, mainVars, input_folder, only_changed,
                 requested, changed_paths, vcs_outcome, base_i, inputs, input,
                 size_index, rasterized, packed, error_log, warnings>>

\* lines 67-81: the base files whose own path or a listed variant's path changed
FilteredBase(bases, alts, szs, changed, folder) ==
  SelectSeq(bases, LAMBDA base :
      \/ Join(folder, base) \in changed
      \/ \E i \in 1..Len(szs) :
           LET variant_name == DropLast(base, 4) \o PxSuffix(szs[i])
           IN  /\ InList(variant_name, alts)
               /\ Join(folder, variant_name) \in changed)

\* paths git may report as changed for a call on `folder`
ChangeCandidates(folder) == {Join(folder, f) : f \in fs[folder]} \cup {Elsewhere}

\* lines 54-87: the incremental filter and its exception handler
FilterChanged ==
  /\ pc = "conv_filter"
  /\ \E outcome \in {"ok", "no_repo", "query_failed"} :
     \E changed \in SUBSET ChangeCandidates(input_folder) :
       /\ vcs_outcome' = outcome
       /\ IF outcome = "no_repo"
            THEN \* rev-parse failed: repo_root is unbound when the handler
                 \* formats it, so the handler itself raises
                 /\ changed = {}
                 /\ exc' = "UnboundLocalError"
                 /\ pc' = "conv_raised"
                 /\ UNCHANGED <<base_filenames, changed_paths, warnings>>
            ELSE IF outcome = "query_failed"
            THEN /\ changed = {}
                 /\ warnings' = warnings \cup {"Failed to filter changed files"}
                 /\ pc' = "conv_icon"
                 /\ UNCHANGED <<base_filenames, changed_paths, exc>>
            ELSE /\ changed_paths' = changed
                 /\ base_filenames' = FilteredBase(base_filenames, alt_filenames,
                                                   sizes, changed, input_folder)
                 /\ pc' = "conv_icon"
                 /\ UNCHANGED <<warnings, exc>>
  /\ base_i' = base_i
  /\ UNCHANGED <<envVars, gitVars, mainVars, input_folder, sizes, only_changed, requested,
                 alt_filenames, unfiltered, inputs, input, size_index,
                 rasterized, packed, error_log>>

\* lines 95-106: the candidate sources of one base icon, overrides first
BuildInputs(folder, base_filename, alts, szs) ==
  LET idx == SelectSeq([i \in 1..Len(szs) |-> i], LAMBDA i :
                 InList(DropLast(base_filename, 4) \o PxSuffix(szs[i]), alts))
  IN  [k \in 1..Len(idx) |->
         [path |-> Join(folder, DropLast(base_filename, 4) \o PxSuffix(szs[idx[k]])),
          maximum_size |-> szs[idx[k]]]]
      \o <<[path |-> Join(folder, base_filename), maximum_size |-> szs[Len(szs)]]>>

\* index of the first size the render loop visits
FirstSizeIndex == 1

\* lines 90-114: enter the loop body for the next base icon
IconBegin ==
  /\ pc = "conv_icon"
  /\ base_i < Len(base_filenames)
  /\ base_i' = base_i + 1
  /\ IF sizes = <<>>
       THEN \* sizes[-1] raises IndexError
            /\ exc' = "IndexError"
            /\ pc' = "conv_raised"
            /\ UNCHANGED <<inputs, input, size_index>>
       ELSE LET all == BuildInputs(input_folder, base_filenames[base_i'],
                                   alt_filenames, sizes)
            IN  /\ input' = Head(all)
                /\ inputs' = Tail(all)
                /\ size_index' = FirstSizeIndex
                /\ pc' = "conv_raster"
                /\ exc' = exc
  /\ UNCHANGED <<envVars, gitVars, mainVars, input_folder, sizes, only_changed, requested,
                 base_filenames, alt_filenames, unfiltered, changed_paths,
                 vcs_outcome, rasterized, packed, error_log, warnings>>

\* mutant of AfterRaster: a failed rasterize abandons the icon's larger sizes
AfterRasterAbandon(ok, last) == IF last \/ ~ok THEN "conv_pack" ELSE "conv_raster"

\* pc after one iteration of the render loop; a failed rasterize is only logged
AfterRaster(ok, last) == IF last THEN "conv_pack" ELSE "conv_raster"

\* lines 115-136: one iteration of the render loop
Rasterize ==
  /\ pc = "conv_raster"
  /\ LET current_size == sizes[size_index]
         advance == current_size > input.maximum_size
         base_filename == base_filenames[base_i]
     IN  IF advance /\ inputs = <<>>
           THEN \* inputs.pop(0) on an empty list raises IndexError
                /\ exc' = "IndexError"
                /\ pc' = "conv_raised"
                /\ UNCHANGED <<inputs, input, size_index, rasterized, error_log>>
           ELSE /\ input' = IF advance THEN Head(inputs) ELSE input
                /\ inputs' = IF advance THEN Tail(inputs) ELSE inputs
                /\ rasterized' = Append(rasterized,
                      [base |-> base_filename, path |-> input'.path,
                       size |-> current_size,
                       out |-> <<DropLast(base_filename, 4), size_index - 1>>])
                /\ \E ok \in BOOLEAN :
                     /\ error_log' = IF ok THEN error_log
                                     ELSE error_log \cup {<<"SVG2PNG", base_filename>>}
                     /\ pc' = AfterRaster(ok, size_index = Len(sizes))
                /\ size_index' = size_index + 1
                /\ exc' = exc
  /\ UNCHANGED <<envVars, gitVars, mainVars, input_folder, sizes, only_changed, requested,
                 base_filenames, alt_filenames, unfiltered, changed_paths,
                 vcs_outcome, base_i, packed, warnings>>

\* pc after the pack step of one icon; a failed pack is only logged
AfterPack(ok) == "conv_icon"

\* lines 138-156: pack the rasters of the current base icon into one .ico
Pack ==
  /\ pc = "conv_pack"
  /\ LET base_filename == base_filenames[base_i]
     IN  /\ packed' = Append(packed, base_filename)
         /\ \E ok \in BOOLEAN :
              /\ error_log' = IF ok THEN error_log
                              ELSE error_log \cup {<<"PNG2ICO", base_filename>>}
              /\ pc' = AfterPack(ok)
  /\ UNCHANGED <<envVars, gitVars, mainVars, input_folder, sizes, only_changed, requested,
                 base_filenames, alt_filenames, unfiltered, changed_paths,
                 vcs_outcome, base_i, inputs, input, size_index, rasterized,
                 warnings, exc>>

\* line 90: the loop over base_filenames is exhausted, the function returns
ConvReturn ==
  /\ pc = "conv_icon"
  /\ base_i >= Len(base_filenames)
  /\ pc' = "conv_done"
  /\ UNCHANGED <<envVars, gitVars, mainVars, convVars>>

\* ------------------------------------------------ git_commit_and_push
\* message=None
None == "None"

\* today's date as time.strftime('%Y-%m-%d') prints it
Today == "2026-11-01"

\* the directory the program is started in
StartDir == "/start"

\* one entry of the staged status: code x, path, and for a rename the
\* original path (<<>> otherwise)
Entry(x, orig, path) == [x |-> x, orig |-> orig, path |-> path]

\* git quotes a path that holds a space
Quoted(path) == IF " " \in {path[i] : i \in 1..Len(path)}
                THEN <<"\"">> \o path \o <<"\"">> ELSE path

\* the line git status --porcelain prints for an entry: 'XY path', and
\* 'XY orig -> path' for a rename; after git add the Y column is blank
PorcelainLine(e) ==
  IF e.x = "R"
    THEN <<e.x, " ", " ">> \o Quoted(e.orig) \o <<" ", "-", ">", " ">> \o Quoted(e.path)
    ELSE <<e.x, " ", " ">> \o Quoted(e.path)

\* lines 181-187: the path the loop reads from one status line
LinePath(line) ==
  LET staged_status == line[1]
      path_info == StripChars(StripChars(SubSeq(line, 4, Len(line)), {" "}), {"\""})
  IN  IF staged_status = "R" THEN SplitFirst(path_info, <<" ", "-", ">", " ">>)
      ELSE path_info

\* lines 189-197: the file names of the lines whose staged status is in `codes`
FilesWithStatus(st, codes) ==
  LET hit == SelectSeq(st, LAMBDA line : line[1] \in codes)
  IN  [i \in 1..Len(hit) |-> Basename(LinePath(hit[i]))]

\* f.endswith(('.svg', '.ico'))
IsIconName(f) == EndsWith(f, DotSvg) \/ EndsWith(f, <<".", "i", "c", "o">>)

\* lines 200-202
added_icons(st) == SelectSeq(FilesWithStatus(st, {"A"}), IsIconName)
modified_icons(st) == SelectSeq(FilesWithStatus(st, {"M", "R"}), IsIconName)
deleted_icons(st) == SelectSeq(FilesWithStatus(st, {"D"}), IsIconName)

\* line 189
all_changed_paths(st) == [i \in 1..Len(st) |-> LinePath(st[i])]

\* mutant of CountsMessage: the update clause is put before the add clause
CountsMessageSwapped(na, nm, nd) ==
  LET counts == (IF nm > 0 THEN <<"update " \o Str(IntToStr(nm))>> ELSE <<>>)
             \o (IF na > 0 THEN <<"add " \o Str(IntToStr(na))>> ELSE <<>>)
             \o (IF nd > 0 THEN <<"remove " \o Str(IntToStr(nd))>> ELSE <<>>)
  IN  "feat: " \o JoinComma(counts) \o " icons"

\* lines 210-214: the counts message
CountsMessage(na, nm, nd) ==
  LET counts == (IF na > 0 THEN <<"add " \o Str(IntToStr(na))>> ELSE <<>>)
             \o (IF nm > 0 THEN <<"update " \o Str(IntToStr(nm))>> ELSE <<>>)
             \o (IF nd > 0 THEN <<"remove " \o Str(IntToStr(nd))>> ELSE <<>>)
  IN  "feat: " \o JoinComma(counts) \o " icons"

\* lines 217-222: the message when no icon file changed
NonIconMessage(paths) ==
  IF \E i \in 1..Len(paths) : EndsWith(paths[i], <<".", "m", "d">>)
    THEN "docs: update documentation"
  ELSE IF \E i \in 1..Len(paths) :
            Contains(paths[i], <<".", "g", "i", "t", "h", "u", "b">>)
    THEN "ci: update workflow"
  ELSE "chore: update files " \o Today

\* lines 177-222: the commit message synthesized from the status lines
Synthesize(st) ==
  LET a == added_icons(st)
      m == modified_icons(st)
      d == deleted_icons(st)
  IN  IF Len(a) > 0 \/ Len(m) > 0 \/ Len(d) > 0
        THEN IF Len(a) = 1 /\ Len(m) = 0 /\ Len(d) = 0
               THEN "feat: add " \o Str(a[1])
             ELSE IF Len(m) = 1 /\ Len(a) = 0 /\ Len(d) = 0
               THEN "feat: update " \o Str(m[1])
             ELSE CountsMessage(Len(a), Len(m), Len(d))
        ELSE NonIconMessage(all_changed_paths(st))

\* lines 164-169: remember the working directory and enter the repository
GitEnter ==
  /\ pc = "git_enter"
  /\ original_cwd' = cwd
  /\ \E ok \in BOOLEAN :
       IF ok THEN /\ cwd' = repo_path
                  /\ git_log' = git_log \cup {"--- Starting Git Sync ---"}
                  /\ pc' = "git_add"
             ELSE \* os.chdir raised: except Exception
                  /\ cwd' = cwd
                  /\ git_log' = git_log \cup {"An error occurred during Git operations"}
                  /\ pc' = "git_done"
  /\ UNCHANGED <<envVars, mainVars, convVars, repo_path, message, status, git_ops>>

\* mutant of AfterChecked: check=True is dropped, a failed command is passed over
AfterCheckedIgnored(ok, next) == next

\* pc after a git command run with check=True
AfterChecked(ok, next) == IF ok THEN next ELSE "git_done"

\* line 171: git add .
GitAdd ==
  /\ pc = "git_add"
  /\ git_ops' = Append(git_ops, "add")
  /\ \E ok \in BOOLEAN :
       /\ pc' = AfterChecked(ok, "git_status")
       /\ git_log' = IF ok THEN git_log ELSE git_log \cup {"Git Error"}
  /\ UNCHANGED <<envVars, mainVars, convVars, repo_path, message, cwd,
                 original_cwd, status>>

\* lines 174-224 and 229-232: read the status; with changes, settle the commit
\* message; without, restore the working directory and return
GitStatus ==
  /\ pc = "git_status"
  /\ git_ops' = Append(git_ops, "status")
  /\ status' = [i \in 1..Len(worktree[repo_path]) |->
                  PorcelainLine(worktree[repo_path][i])]
  /\ IF status' # <<>>
       THEN /\ message' = IF message = None THEN Synthesize(status') ELSE message
            /\ git_log' = git_log \cup {"Committing with message"}
            /\ cwd' = cwd
            /\ pc' = "git_commit"
       ELSE /\ git_log' = git_log \cup {"No changes to commit."}
            /\ cwd' = original_cwd
            /\ message' = message
            /\ pc' = "git_done"
  /\ UNCHANGED <<envVars, mainVars, convVars, repo_path, original_cwd>>

\* line 225: git commit -m message
GitCommit ==
  /\ pc = "git_commit"
  /\ git_ops' = Append(git_ops, "commit")
  /\ \E ok \in BOOLEAN :
       /\ pc' = AfterChecked(ok, "git_push")
       /\ git_log' = IF ok THEN git_log ELSE git_log \cup {"Git Error"}
  /\ UNCHANGED <<envVars, mainVars, convVars, repo_path, message, cwd,
                 original_cwd, status>>

\* lines 227-232: git push, then restore the working directory
GitPush ==
  /\ pc = "git_push"
  /\ git_ops' = Append(git_ops, "push")
  /\ \E ok \in BOOLEAN :
       IF ok THEN /\ git_log' = git_log \cup {"Successfully pushed changes to repository."}
                  /\ cwd' = original_cwd
             ELSE /\ git_log' = git_log \cup {"Git Error"}
                  /\ cwd' = cwd
  /\ pc' = "git_done"
  /\ UNCHANGED <<envVars, mainVars, convVars, repo_path, message,
                 original_cwd, status>>

\* the locals of a fresh git_commit_and_push frame
FreshGitFrame ==
  /\ original_cwd = "" /\ status = <<>> /\ git_ops = <<>> /\ git_log = {}

\* ------------------------------------------------------------ __main__
\* line 272: the default size list
DefaultSizes == <<16, 20, 24, 32, 40, 48, 64, 256>>

\* lines 298-299: the two repositories that are synced, in call order
SyncRepos == <<"/repo/Folder11", "/repo/Folder-Ico">>

\* the name of the i-th input folder found beside the script
FolderName(i) == "svg_" \o ToString(i)

\* the locals of convert_svg_to_ico at call entry
EnterFrame ==
  /\ base_filenames' = <<>> /\ alt_filenames' = <<>> /\ unfiltered' = <<>>
  /\ changed_paths' = {} /\ vcs_outcome' = "" /\ base_i' = 0 /\ inputs' = <<>>
  /\ input' = NoInput /\ size_index' = 0 /\ rasterized' = <<>>
  /\ packed' = <<>> /\ error_log' = {} /\ warnings' = {} /\ exc' = ""

\* lines 275-289: the loop over input_folders calls convert_svg_to_ico
MainCallConvert ==
  /\ pc = "main_loop"
  /\ folder_i < Len(input_folders)
  /\ folder_i' = folder_i + 1
  /\ input_folder' = input_folders[folder_i']
  /\ sizes' = main_sizes
  /\ requested' = main_sizes
  /\ only_changed' = opt_changed
  /\ EnterFrame
  /\ pc' = "conv_classify"
  /\ UNCHANGED <<envVars, gitVars, input_folders, main_sizes, opt_changed,
                 main_log, sync_calls>>

\* mutant of AfterConvert: no try/except around the call, a raise ends the script
AfterConvertAbort(raised) == IF raised THEN "main_done" ELSE "main_loop"

\* where __main__ goes on after a conversion returned or raised
AfterConvert(raised) == "main_loop"

\* lines 288-291: the call returned, or raised and the warning is logged
MainAfterConvert ==
  /\ pc \in {"conv_done", "conv_raised"}
  /\ main_log' = IF pc = "conv_raised" THEN main_log \cup {input_folder}
                 ELSE main_log
  /\ pc' = AfterConvert(pc = "conv_raised")
  /\ input_folder' = "" /\ sizes' = <<>> /\ requested' = <<>>
  /\ only_changed' = FALSE
  /\ EnterFrame
  /\ UNCHANGED <<envVars, gitVars, input_folders, main_sizes, opt_changed,
                 folder_i, sync_calls>>

\* call git_commit_and_push(repo) with the default message=None
CallSync(repo) ==
  /\ sync_calls' = Append(sync_calls, repo)
  /\ repo_path' = repo
  /\ message' = None
  /\ original_cwd' = "" /\ status' = <<>> /\ git_ops' = <<>> /\ git_log' = {}
  /\ cwd' = cwd
  /\ pc' = "git_enter"

\* line 298: every folder is done, sync the first repository
MainSync ==
  /\ pc = "main_loop"
  /\ folder_i = Len(input_folders)
  /\ CallSync(SyncRepos[1])
  /\ UNCHANGED <<envVars, convVars, input_folders, main_sizes, opt_changed,
                 folder_i, main_log>>

\* line 299: the first sync returned, sync the second repository
MainSyncSecond ==
  /\ pc = "git_done"
  /\ Len(sync_calls) = 1
  /\ CallSync(SyncRepos[2])
  /\ UNCHANGED <<envVars, convVars, input_folders, main_sizes, opt_changed,
                 folder_i, main_log>>

\* end of the script
MainExit ==
  /\ pc = "git_done"
  /\ Len(sync_calls) = 2
  /\ pc' = "main_done"
  /\ UNCHANGED <<envVars, convVars, gitVars, mainVars>>

\* ------------------------------------------------------- specifications
vars == <<fs, worktree, pc, input_folder, sizes, only_changed, requested,
          base_filenames, alt_filenames, unfiltered, changed_paths, vcs_outcome,
          base_i, inputs, input, size_index, rasterized, packed, error_log,
          warnings, exc, input_folders, main_sizes, opt_changed, folder_i,
          main_log, sync_calls, repo_path, message, cwd, original_cwd, status,
          git_ops, git_log>>

\* staged entries a repository may hold (each path at most once)
EntryUniverse ==
  { Entry("A", <<>>, <<"a", ".", "s", "v", "g">>),
    Entry("A", <<>>, <<"o", "u", "t", "/", "b", ".", "i", "c", "o">>),
    Entry("A", <<>>, <<"h", " ", "i", ".", "s", "v", "g">>),
    Entry("M", <<>>, <<"c", ".", "s", "v", "g">>),
    Entry("D", <<>>, <<"d", ".", "i", "c", "o">>),
    Entry("R", <<"e", ".", "s", "v", "g">>, <<"f", ".", "s", "v", "g">>),
    Entry("R", <<"n", ".", "t", "x", "t">>, <<"g", ".", "s", "v", "g">>),
    Entry("M", <<>>, <<"r", ".", "m", "d">>),
    Entry("M", <<>>, <<".", "g", "i", "t", "h", "u", "b", "/", "w", ".", "y", "m", "l">>),
    Entry("M", <<>>, <<"t", ".", "t", "x", "t">>) }

\* what git status may report: up to MaxStatus entries, no entry twice
Statuses ==
  {st \in UNION {[1..n -> EntryUniverse] : n \in 0..MaxStatus} :
     \A i, j \in 1..Len(st) : i # j => st[i] # st[j]}

\* __main__ is not running
MainIdle ==
  /\ input_folders = <<>> /\ main_sizes = <<>> /\ opt_changed = FALSE
  /\ folder_i = 0 /\ main_log = {} /\ sync_calls = <<>>

\* no convert_svg_to_ico frame
ConvIdle ==
  /\ input_folder = "" /\ sizes = <<>> /\ requested = <<>>
  /\ only_changed = FALSE /\ FreshFrame

\* one call convert_svg_to_ico(input_folder, output_folder, sizes, only_changed)
ConvInit ==
  /\ pc = "conv_classify"
  /\ input_folder = FolderName(1)
  /\ fs \in [{FolderName(1)} -> Listings] \cup {<<>>}
  /\ worktree = <<>>
  /\ sizes \in SizeTuples
  /\ requested = sizes
  /\ only_changed \in BOOLEAN
  /\ FreshFrame
  /\ MainIdle
  /\ repo_path = "" /\ message = None /\ cwd = StartDir /\ FreshGitFrame

NextConvert ==
  \/ Classify
  \/ FilterChanged
  \/ IconBegin
  \/ Rasterize
  \/ Pack
  \/ ConvReturn

SpecConvert == ConvInit /\ [][NextConvert]_vars

\* one call git_commit_and_push(repo_path, message)
GitInit ==
  /\ pc = "git_enter"
  /\ repo_path = SyncRepos[1]
  /\ message \in {None, "manual message"}
  /\ cwd = StartDir
  /\ worktree \in [{SyncRepos[1]} -> Statuses]
  /\ fs = <<>>
  /\ FreshGitFrame
  /\ MainIdle
  /\ ConvIdle

NextGit ==
  \/ GitEnter
  \/ GitAdd
  \/ GitStatus
  \/ GitCommit
  \/ GitPush

SpecGit == GitInit /\ [][NextGit]_vars

\* folder contents and repository states the whole-program runs draw from
MainListings == {{}, {<<"a">> \o DotSvg}}
MainStatuses == {<<>>, <<Entry("A", <<>>, <<"a">> \o DotSvg)>>}
MainSizes == {DefaultSizes, <<2, 1>>}

\* the script, from the start of the conversion phase (line 274)
Init ==
  /\ pc = "main_loop"
  /\ \E n \in 1..MaxFolders : input_folders = [i \in 1..n |-> FolderName(i)]
  /\ \E present \in SUBSET {input_folders[i] : i \in 1..Len(input_folders)} :
       fs \in [present -> MainListings]
  /\ worktree \in [{SyncRepos[1], SyncRepos[2]} -> MainStatuses]
  /\ main_sizes \in MainSizes
  /\ opt_changed \in BOOLEAN
  /\ folder_i = 0 /\ main_log = {} /\ sync_calls = <<>>
  /\ ConvIdle
  /\ repo_path = "" /\ message = None /\ cwd = StartDir /\ FreshGitFrame

Next ==
  \/ MainCallConvert
  \/ Classify
  \/ FilterChanged
  \/ IconBegin
  \/ Rasterize
  \/ Pack
  \/ ConvReturn
  \/ MainAfterConvert
  \/ MainSync
  \/ GitEnter
  \/ GitAdd
  \/ GitStatus
  \/ GitCommit
  \/ GitPush
  \/ MainSyncSecond
  \/ MainExit

Spec == Init /\ [][Next]_vars

\* every blocking call returns, so the script always takes its next step
FairSpec == Spec /\ WF_vars(Next)

\* ======================================================================
\* Properties of convert_svg_to_ico
\* ======================================================================

\* the call has got past classification
Classified == pc \notin {"conv_classify"} /\ exc # "FileNotFoundError"

\* the target sizes rasterized for one base icon, in invocation order
SizesRasterizedFor(base) ==
  LET own == SelectSeq(rasterized, LAMBDA e : e.base = base)
  IN  [i \in 1..Len(own) |-> own[i].size]

\* the render loop of base_filenames[k] has run to its end
RenderLoopDone(k) ==
  \/ k < base_i
  \/ k = base_i /\ pc \in {"conv_pack", "conv_icon", "conv_done"}

\* C1: for a non-empty size list, the render loop of every base icon
\* rasterizes exactly the sorted size list: while the loop runs it has issued
\* the first size_index-1 sizes in ascending order, when it ends it has issued
\* all of them once each, and nothing is rasterized for an icon not yet begun.
C1_RenderLoopCoversSortedSizes ==
  (requested # <<>> /\ Classified) =>
    \A k \in 1..Len(base_filenames) :
      LET done == SizesRasterizedFor(base_filenames[k])
          want == SortedInts(requested)
      IN  /\ RenderLoopDone(k) => done = want
          /\ (k = base_i /\ pc = "conv_raster")
               => done = SubSeq(want, 1, size_index - 1)
          /\ k > base_i => done = <<>>

\* C1 witness: two base icons rendered to the end from an unsorted two-size
\* request, with a rasterize failure logged on the way.
C1_Witness ==
  /\ pc = "conv_done"
  /\ Len(requested) = 2 /\ requested[1] > requested[2]
  /\ Len(base_filenames) = 2
  /\ Len(rasterized) = 4
  /\ \E b \in 1..2 : <<"SVG2PNG", base_filenames[b]>> \in error_log

\* '<stem>-<digits>px' with a hyphen separator, as the documentation has it
MatchesHyphenPx(stem) ==
  /\ EndsWith(stem, Px)
  /\ LET parts == RSplit1(stem, "-")
     IN  Len(parts) = 2 /\ IsDigit(DropLast(parts[2], 2))

\* the set of values of a tuple
Range(t) == {t[i] : i \in 1..Len(t)}

\* the largest requested size
MaxSize(szs) == CHOOSE m \in Range(szs) : \A x \in Range(szs) : x <= m

\* the source the documentation assigns to `size` of base icon `base`: the
\* existing override '<stem>-<N>px.svg' with the least N >= size among the
\* requested sizes below the largest, else the base file
DocumentedSource(files, base, szs, size) ==
  LET tags == {n \in Range(szs) :
                 /\ n < MaxSize(szs) /\ n >= size
                 /\ (DropLast(base, 4) \o PxSuffix(n)) \in files}
  IN  IF tags = {} THEN base
      ELSE DropLast(base, 4) \o PxSuffix(CHOOSE n \in tags : \A m \in tags : n <= m)

\* C2: every size of every base icon is rasterized from the smallest
\* available source whose bound is >= that size (an existing override
\* '<stem>-<N>px.svg' before the base file).
C2_SmallestSourceServes ==
  Classified =>
    \A i \in 1..Len(rasterized) :
      rasterized[i].path =
        Join(input_folder,
             DocumentedSource(fs[input_folder], rasterized[i].base, sizes,
                              rasterized[i].size))

\* C3: with two or more requested sizes (the case of the claim's example), an
\* .svg file is in the override list iff its lower-cased stem matches
\* '<stem>-<digits>px', and in the base list otherwise.
C3_HyphenPxClassifies ==
  (Classified /\ Len(sizes) >= 2) =>
    \A f \in fs[input_folder] :
      IsSvg(f) =>
        /\ InList(f, alt_filenames) <=> MatchesHyphenPx(Lower(DropLast(f, 4)))
        /\ InList(f, unfiltered) <=> ~MatchesHyphenPx(Lower(DropLast(f, 4)))

\* C4: classification is a total partition for every size list: each .svg
\* file of the folder is in exactly one of base_filenames / alt_filenames.
C4_TotalPartition ==
  Classified =>
    \A f \in fs[input_folder] :
      IsSvg(f) => (InList(f, unfiltered) <=> ~InList(f, alt_filenames))

\* the incremental filter ran and got its change set
FilterSucceeded == only_changed /\ vcs_outcome = "ok"

\* C5: after a successful incremental filter a base file is kept iff its own
\* path is in the change set or the path of some existing file
\* '<stem>-<size>px.svg', size in the size list, is; kept files keep their order.
C5_ChangeFilterSound ==
  FilterSucceeded =>
    base_filenames =
      SelectSeq(unfiltered, LAMBDA base :
        \/ Join(input_folder, base) \in changed_paths
        \/ \E n \in Range(sizes) :
             LET variant == DropLast(base, 4) \o PxSuffix(n)
             IN  /\ variant \in fs[input_folder]
                 /\ Join(input_folder, variant) \in changed_paths)

\* C6: a failed version-control query (the repository-root query included)
\* degrades to "no filtering": a warning is logged, every base file stays in
\* the worklist, and the failure does not abort the call.
C6_QueryFailureFallsBack ==
  vcs_outcome \in {"no_repo", "query_failed"} =>
    /\ "Failed to filter changed files" \in warnings
    /\ base_filenames = unfiltered
    /\ exc # "UnboundLocalError"

\* C7: an error raised while base icon number base_i is processed leaves
\* the following base icons processed: when the call is over, each of them
\* has had its pack step attempted.
C7_PartialFailureIsolation ==
  (pc \in {"conv_done", "conv_raised"} /\ base_i >= 1) =>
    \A k \in (base_i + 1)..Len(base_filenames) :
      InList(base_filenames[k], packed)

\* this step issues a rasterize invocation for base icon `base`, for a size
\* larger than every size already issued for it
LargerSizeIssuedFor(base) ==
  /\ Len(rasterized') = Len(rasterized) + 1
  /\ rasterized'[Len(rasterized')].base = base
  /\ \A i \in 1..Len(rasterized) :
       rasterized[i].base = base
         => rasterized[i].size < rasterized'[Len(rasterized')].size

\* C11: once a rasterize failure is logged for a base icon, no further
\* rasterize invocation is issued for that icon (its larger sizes are
\* abandoned), and a call that returns has still attempted the pack step of
\* every base icon.
C11_RasterFailureAbandonsIcon ==
  /\ [][\A e \in error_log :
          e[1] = "SVG2PNG" => ~LargerSizeIssuedFor(e[2])]_vars
  /\ [](pc = "conv_done" =>
          \A k \in 1..Len(base_filenames) : InList(base_filenames[k], packed))

\* the files '<base stem>-<max size>px.svg' of the folder: overrides of a
\* base file (an .svg without size suffix) tagged with the largest size
MaxSizeOverrides(files, szs) ==
  {f \in files :
     \E b \in files :
       /\ IsSvg(b) /\ ~MatchesHyphenPx(Lower(DropLast(b, 4)))
       /\ f = DropLast(b, 4) \o PxSuffix(MaxSize(szs))}

\* no override tagged with the largest size is listed as override candidate
C12_MaxOverrideNotCandidate ==
  (Classified /\ sizes # <<>>) =>
    \A f \in MaxSizeOverrides(fs[input_folder], sizes) :
      ~InList(f, alt_filenames)

\* the largest size of every base icon is rasterized from the base file
C12_MaxSizeFromBase ==
  (Classified /\ sizes # <<>>) =>
    \A i \in 1..Len(rasterized) :
      rasterized[i].size = MaxSize(sizes)
        => rasterized[i].path = Join(input_folder, rasterized[i].base)

\* C12: an override file tagged with the largest requested size is never
\* used as a source: it is not among the override candidates, no rasterize
\* invocation reads it, and the largest size of every base icon is rasterized
\* from the base file itself.
C12_MaxOverrideNeverSource ==
  /\ C12_MaxOverrideNotCandidate
  /\ C12_MaxSizeFromBase
  /\ (Classified /\ sizes # <<>>) =>
       \A f \in MaxSizeOverrides(fs[input_folder], sizes) :
         \A i \in 1..Len(rasterized) :
           rasterized[i].path # Join(input_folder, f)

\* C13: the size sequence the call works on is strictly increasing for every
\* caller-supplied tuple, so no size is rasterized twice for one base icon
\* and no source is listed twice among the candidates of an icon.
C13_SizesStrictlyIncreasing ==
  Classified =>
    /\ \A i \in 1..(Len(sizes) - 1) : sizes[i] < sizes[i + 1]
    /\ \A i, j \in 1..Len(rasterized) :
         (i # j /\ rasterized[i].base = rasterized[j].base)
           => rasterized[i].size # rasterized[j].size
    /\ LET candidates == <<input>> \o inputs
       IN  \A i, j \in 1..Len(candidates) :
             i # j => candidates[i].path # candidates[j].path

\* ======================================================================
\* Properties of __main__
\* ======================================================================

\* git_commit_and_push has been invoked on both repositories, in order
BothSyncsInvoked == sync_calls = SyncRepos

\* C8: once the conversion phase has started, the script eventually invokes
\* git_commit_and_push on '<root>/Folder11' and then on '<root>/Folder-Ico',
\* whatever raised during conversion and however the first sync ended.
C8_BothSyncsEventuallyInvoked ==
  (pc = "main_loop" /\ folder_i = 0) ~> BothSyncsInvoked

\* C8 witness: the second sync is entered after a conversion raised and after
\* the first sync failed half-way (it left the process inside its repository).
C8_Witness ==
  /\ BothSyncsInvoked
  /\ pc = "git_enter"
  /\ main_log # {}
  /\ cwd = SyncRepos[1]

\* ======================================================================
\* Properties of the commit message
\* ======================================================================

\* the commit message in `message` was synthesized from the status
Synthesized == status # <<>> /\ message # "manual message"

\* the clauses 'add <n>', 'update <n>', 'remove <n>' of the non-zero counts,
\* comma-joined in that order
Clauses(na, nm, nd) ==
  CASE na > 0 /\ nm = 0 /\ nd = 0 -> "add " \o ToString(na)
    [] na = 0 /\ nm > 0 /\ nd = 0 -> "update " \o ToString(nm)
    [] na = 0 /\ nm = 0 /\ nd > 0 -> "remove " \o ToString(nd)
    [] na > 0 /\ nm > 0 /\ nd = 0 ->
         "add " \o ToString(na) \o ", update " \o ToString(nm)
    [] na > 0 /\ nm = 0 /\ nd > 0 ->
         "add " \o ToString(na) \o ", remove " \o ToString(nd)
    [] na = 0 /\ nm > 0 /\ nd > 0 ->
         "update " \o ToString(nm) \o ", remove " \o ToString(nd)
    [] na > 0 /\ nm > 0 /\ nd > 0 ->
         "add " \o ToString(na) \o ", update " \o ToString(nm)
         \o ", remove " \o ToString(nd)
    [] OTHER -> ""

\* the icon lists built from the status are non-empty and are neither one
\* added icon alone nor one modified icon alone
MixedIconChange(na, nm, nd) ==
  /\ na + nm + nd > 0
  /\ ~(na = 1 /\ nm = 0 /\ nd = 0)
  /\ ~(nm = 1 /\ na = 0 /\ nd = 0)

IconEntries(es, codes) ==
  SelectSeq(es, LAMBDA e : e.x \in codes /\ IsIconName(Basename(e.path)))

\* C10: the rules apply in fixed priority to the staged entries: one added
\* icon alone -> 'feat: add <name>'; one modified-or-renamed icon alone ->
\* 'feat: update <name>'; any other icon change -> a 'feat: ' counts message;
\* no icon change and a '.md' path -> docs; else a '.github' path -> ci; else
\* 'chore: update files <date>'.
C10_RulePriority ==
  Synthesized =>
    LET es == worktree[repo_path]
        a == IconEntries(es, {"A"})
        m == IconEntries(es, {"M", "R"})
        d == IconEntries(es, {"D"})
    IN  IF Len(a) = 1 /\ Len(m) = 0 /\ Len(d) = 0
          THEN message = "feat: add " \o Str(Basename(a[1].path))
        ELSE IF Len(m) = 1 /\ Len(a) = 0 /\ Len(d) = 0
          THEN message \in {"feat: update " \o Str(Basename(m[1].path)),
                            "feat: update " \o Str(Basename(m[1].orig))}
        ELSE IF Len(a) + Len(m) + Len(d) > 0
          THEN message \in {"feat: " \o Clauses(Len(a), Len(m), Len(d)) \o tail :
                              tail \in {"", " icons"}}
        ELSE IF \E i \in 1..Len(es) : EndsWith(es[i].path, <<".", "m", "d">>)
          THEN message = "docs: update documentation"
        ELSE IF \E i \in 1..Len(es) :
                  Contains(es[i].path, <<".", "g", "i", "t", "h", "u", "b">>)
          THEN message = "ci: update workflow"
        ELSE message = "chore: update files " \o Today

\* ======================================================================
\* Properties of git_commit_and_push
\* ======================================================================

\* C14: whenever git_commit_and_push has returned (sync done, nothing to
\* commit, or a failed chdir/add/commit/push), the process working directory
\* is the one the call was made in, which is StartDir for the single call.
C14_WorkingDirectoryRestored ==
  pc = "git_done" => cwd = StartDir

\* the repository operations of one call, in their order
SyncOrder == <<"add", "status", "commit", "push">>

\* a failure has been logged by the current call
FailureLogged ==
  git_log \cap {"Git Error", "An error occurred during Git operations"} # {}

\* C15: the operations issued by one call are a prefix of stage-all, status
\* query, commit, push; commit and push are issued only with a non-empty
\* status; and no operation is issued once a failure of an earlier one has
\* been logged (so commit needs a successful staging, push a successful
\* commit).
C15_SyncOperationsGated ==
  /\ [](/\ Len(git_ops) <= Len(SyncOrder)
        /\ git_ops = SubSeq(SyncOrder, 1, Len(git_ops))
        /\ (Len(git_ops) > 2 => status # <<>>)
        /\ ((pc = "git_done" /\ Len(git_ops) >= 2 /\ status = <<>>)
              => git_ops = <<"add", "status">>))
  /\ [][git_ops' # git_ops => ~FailureLogged]_vars

\* C15 witness: the commit failed on a non-empty status and the call returned
\* without issuing the push.
C15_Witness ==
  /\ pc = "git_done"
  /\ status # <<>>
  /\ git_ops = <<"add", "status", "commit">>
  /\ "Git Error" \in git_log

====
